---- MODULE Spec2Model ----
(***************************************************************************)
(* Model of the Elasticsearch -> ClickHouse transfer engine:               *)
(*   MigrationService.migrate / verifySampleData                           *)
(*   ElasticsearchUserRepository (source adapter)                          *)
(*   ClickHouseUserRepository    (destination adapter)                     *)
(* A record is represented by its identifier (a small integer; the order   *)
(* of the integers stands for the order of the id strings).                *)
(* One action is one resumption of the async code: everything that runs    *)
(* between the completion of one awaited store operation and the next      *)
(* await.  Every store operation may complete normally or raise.           *)
(***************************************************************************)
EXTENDS Integers, Sequences, FiniteSets, TLC

\* ---------------------------------------------------------------- bounds
MaxId == 3
MaxBatch == 3
MaxChunk == 3
MaxRuns == 2
MaxOps == 3
MaxStatus == 2
MaxSeeds == 2
MaxLaunches == 1

\* ------------------------------------------------------ program constants
SampleSize == 5
DefaultBatchSize == 1000
DefaultMockUsersCount == 10000

Ids == 1..MaxId
NoCount == 0 - 1

VARIABLES
  esIndex,        \* the Elasticsearch index: [exists, docs]
  chTable,        \* the ClickHouse table: [exists, rows] (rows: id -> multiplicity)
  pc,             \* position of the migrate() call
  batchSize,      \* options.batchSize of the running call
  onProgress,     \* TRUE iff options.onProgress was supplied
  sourceCount,    \* migrate's local sourceCount
  processedCount, \* migrate's local processedCount
  targetCount,    \* migrate's local targetCount
  success,        \* migrate's local success
  esCursor,       \* state of the generator returned by ES findAll
  chStream,       \* state of the generator returned by ClickHouse findAll
  batch,          \* the batch held by the for-await loop (users)
  yielded,        \* batches yielded so far by the generator being consumed
  openDocs,       \* the collection as it was when the cursor was opened
  calls,          \* store operations performed by the running call, in order
  progress,       \* arguments of the onProgress invocations of the running call
  sample,         \* verifySampleData's sourceSample
  results,        \* outcome of every finished migrate() call, in order
  notFound,       \* sample ids verifySampleData reported as not in the target
  compared,       \* what verifySampleData's comparison loop came to
  op,             \* the repository operation last called on its own, and its outcome
  st,             \* the getStatus() call: its promises, events and outcome
  runMutated,      \* a store was changed by someone else during this run
  seed,           \* the SeedingService.seed() call
  main,           \* the process of a command-line script
  race            \* two migrate() calls running at the same time

vars == <<esIndex, chTable, pc, batchSize, onProgress, sourceCount,
          processedCount, targetCount, success, esCursor, chStream, batch,
          yielded, openDocs, calls, progress, sample, results, notFound, compared, op, st, seed, main, race,
          runMutated>>

\* ------------------------------------------------------------- helpers
Min(a, b) == IF a < b THEN a ELSE b

EmptyRows == [i \in Ids |-> 0]

RowsOf(S) == [i \in Ids |-> IF i \in S THEN 1 ELSE 0]

RECURSIVE RowTotal(_, _)
RowTotal(rows, S) ==
  IF S = {} THEN 0
  ELSE LET i == CHOOSE x \in S : TRUE IN rows[i] + RowTotal(rows, S \ {i})

RECURSIVE Repeat(_, _)
Repeat(i, n) == IF n = 0 THEN <<>> ELSE <<i>> \o Repeat(i, n - 1)

\* SELECT * ... ORDER BY id : the rows in ascending id order
RECURSIVE OrderById(_, _)
OrderById(rows, from) ==
  IF from > MaxId THEN <<>>
  ELSE Repeat(from, rows[from]) \o OrderById(rows, from + 1)

RECURSIVE Flatten(_)
Flatten(bs) == IF bs = <<>> THEN <<>> ELSE Head(bs) \o Flatten(Tail(bs))

Range(s) == {s[i] : i \in 1..Len(s)}

Occurrences(s, x) == Cardinality({i \in 1..Len(s) : s[i] = x})

\* All the sequences that list k distinct elements of S
Arrangements(S, k) ==
  {s \in [1..k -> S] : \A i, j \in 1..k : i # j => s[i] # s[j]}

\* ============================================================ ClickHouse
\* a DROP TABLE that leaves the table in place
ChDropNothing(table) == table

\* DROP TABLE
ChDrop(table) == [exists |-> FALSE, rows |-> EmptyRows]

\* create() with CREATE TABLE IF NOT EXISTS and no drop
ChCreateKeep(table) == [exists |-> TRUE, rows |-> table.rows]

\* create(): drop the table when it exists, then CREATE TABLE
ChCreate(table) == [exists |-> TRUE, rows |-> EmptyRows]

\* create() when the statement `failAt` raises: "exists", "drop" or "create"
ChCreateFailed(table, failAt) ==
  IF failAt = "create" /\ table.exists THEN ChDrop(table) ELSE table

\* clear(): TRUNCATE TABLE when the table exists
ChClear(table) ==
  IF table.exists THEN [table EXCEPT !.rows = EmptyRows] ELSE table

\* insert() that writes users.slice(1)
ChInsertSkipFirst(table, users) ==
  [table EXCEPT !.rows =
     [i \in Ids |-> table.rows[i] + Occurrences(Tail(users), i)]]

\* insert(users): append every record of the batch (MergeTree keeps duplicates)
ChInsert(table, users) ==
  IF Len(users) = 0 THEN table
  ELSE [table EXCEPT !.rows =
          [i \in Ids |-> table.rows[i] + Occurrences(users, i)]]

\* count(): SELECT count()
ChCount(table) == RowTotal(table.rows, Ids)

\* findByIds(ids): SELECT * WHERE id IN ids
ChFindByIds(table, ids) ==
  IF Len(ids) = 0 THEN <<>>
  ELSE OrderById([i \in Ids |-> IF i \in Range(ids) THEN table.rows[i] ELSE 0], 1)

\* findAll: buffer = buffer.slice(batchSize)
ChRest(buffer, size) == SubSeq(buffer, size + 1, Len(buffer))

\* findAll: `if (buffer.length >= batchSize)` in place of the while loop
ChFlushOnce(buffer, size, out) ==
  IF Len(buffer) >= size
    THEN [buffer |-> ChRest(buffer, size),
          out |-> Append(out, SubSeq(buffer, 1, size))]
    ELSE [buffer |-> buffer, out |-> out]

\* findAll: while (buffer.length >= batchSize) { yield slice; buffer = rest }
RECURSIVE ChFlush(_, _, _)
ChFlush(buffer, size, out) ==
  IF Len(buffer) >= size
    THEN ChFlush(ChRest(buffer, size), size,
                 Append(out, SubSeq(buffer, 1, size)))
    ELSE [buffer |-> buffer, out |-> out]

\* ========================================================= Elasticsearch
\* count(): client.count
EsCount(index) == Cardinality(index.docs)

\* The pages a scroll request may answer with: `size` hits (fewer when fewer
\* are left) of the snapshot, in no particular order (match_all, no sort).
EsScrollPages(remaining, size) ==
  Arrangements(remaining, Min(size, Cardinality(remaining)))

\* findAll that stops at the first page shorter than the batch size
EsStopShortPage(documents) == Len(documents) < batchSize

\* findAll: if (response.documents.length === 0) break
EsStop(documents) == Len(documents) = 0

\* getSample(count): search, size: count, sort by id ascending
EsGetSample(index, count) ==
  LET all == OrderById(RowsOf(index.docs), 1)
  IN SubSeq(all, 1, Min(count, Len(all)))

\* ======================================================= MigrationService
Op(name, ok) == [op |-> name, ok |-> ok]

Returned(sc, tc, su) ==
  [kind |-> "returned", sourceCount |-> sc, targetCount |-> tc,
   success |-> su, mutated |-> runMutated]

Raised ==
  [kind |-> "raised", sourceCount |-> NoCount, targetCount |-> NoCount,
   success |-> FALSE, mutated |-> runMutated]

Running == {"create", "clear", "count", "pull", "insert", "tcount",
            "sample", "lookup"}

\* migrate without the clear() call
MigrateSeqNoClear(at) ==
  CASE at = "start" -> "create"
    [] at = "create" -> "count"
    [] at = "clear" -> "count"
    [] at = "count" -> "pull"
    [] at = "insert" -> "pull"

\* migrate without the preparation of the target
MigrateSeqNoPrepare(at) ==
  CASE at = "start" -> "count"
    [] at = "create" -> "clear"
    [] at = "clear" -> "count"
    [] at = "count" -> "pull"
    [] at = "insert" -> "pull"

\* migrate's statement order: create, clear, count, then the batch loop
MigrateSeq(at) ==
  CASE at = "start" -> "create"
    [] at = "create" -> "clear"
    [] at = "clear" -> "count"
    [] at = "count" -> "pull"
    [] at = "insert" -> "pull"

\* a catch that logs a failed insert and goes on with the next batch
MigrateCatchContinue(at) == IF at = "insert" THEN "pull" ELSE "failed"

\* a catch that calls source count() again after it failed
MigrateCatchRetry(at) == IF at = "count" THEN "count" ELSE "failed"

\* migrate's catch block: log and rethrow, whatever statement raised
MigrateCatch(at) == "failed"

\* success computed from the running processed count
SuccessByProcessed(sc, tc, processed) == processed = tc

\* const success = sourceCount === targetCount
Success(sc, tc, processed) == sc = tc

\* sample verification run whatever the counts
RunVerifyAlways(su) == TRUE

\* if (success) await this.verifySampleData()
RunVerify(su) == su

\* verifySampleData going on with an empty sample
SampleNeverEmpty(sourceSample) == FALSE

\* verifySampleData: if (sourceSample.length === 0) return
SampleEmpty(sourceSample) == Len(sourceSample) = 0

\* What comparing the sample records found in the target can come to: every
\* pair equal as JSON, some pair different (warned about), or an exception
\* (timestamp.replace on a record without timestamp, toISOString of an
\* invalid date)
Comparisons(found) ==
  IF found = {} THEN {"none"} ELSE {"match", "mismatch", "threw"}

\* verifySampleData with a catch block that rethrows
VerifyCatchRethrow(outcome) == outcome = "threw"

\* verifySampleData's catch block: log the error, raise nothing
VerifyCatch(outcome) == FALSE

\* An error raised by store operation `name` at statement `at` of migrate
Raise(name, at) ==
  /\ calls' = Append(calls, Op(name, FALSE))
  /\ pc' = MigrateCatch(at)
  /\ results' = IF pc' = "failed" THEN Append(results, Raised) ELSE results

\* migrate returns its result
Return(sc, tc, su) ==
  /\ pc' = "done"
  /\ results' = Append(results, Returned(sc, tc, su))

\* No repository operation has been called on its own yet
NoOp == [adapter |-> "none", name |-> "none", arg |-> <<>>, outcome |-> "none",
         result |-> <<>>, requests |-> 0, transportFailed |-> FALSE,
         itemsFailed |-> {}, count |-> 0, flag |-> FALSE, seq |-> 0,
         had |-> {}]

\* getStatus() has not been called
NoStatus == [pc |-> "idle", exists |-> [x \in {"source", "target"} |-> "idle"],
             count |-> [x \in {"source", "target"} |-> "idle"],
             n |-> [x \in {"source", "target"} |-> 0],
             events |-> <<>>, calls |-> 0]

\* seed() has not been called
NoSeed == [pc |-> "idle", userCount |-> 0, batchSize |-> 1, cleanup |-> TRUE,
           i |-> 0, processedCount |-> 0, users |-> <<>>, sizes |-> <<>>,
           used |-> {}, rejected |-> {}, finalCount |-> NoCount, calls |-> 0,
           had |-> 0]

\* migrate() or seed() has not settled
NoResult == [kind |-> "none", sourceCount |-> NoCount, targetCount |-> NoCount,
             success |-> FALSE, mutated |-> FALSE]

EnvVars == {"ELASTIC_NODE", "CLICKHOUSE_HOST", "BATCH_SIZE", "MOCK_USERS_COUNT"}

\* No script has been started
NoMain == [pc |-> "idle", script |-> "none", exitOnError |-> TRUE,
           env |-> [v \in EnvVars |-> "unset"], errors |-> 0,
           batchSize |-> 0, mockUsersCount |-> 0,
           es |-> "none", ch |-> "none", result |-> NoResult,
           exit |-> NoCount, launches |-> 0]

\* A migrate() call of the concurrent pair that has not started
NoRun == [pc |-> "idle", batchSize |-> 1, sourceCount |-> NoCount,
          targetCount |-> NoCount, processedCount |-> 0,
          cursor |-> [state |-> "new", remaining |-> {}], users |-> <<>>,
          inserted |-> 0, existed |-> FALSE, success |-> FALSE]

\* No concurrent migrate() calls
NoRace == [run |-> [r \in 1..2 |-> NoRun], overlapped |-> FALSE,
           raced |-> FALSE]

EsCursorNew == [state |-> "new", remaining |-> {}]
ChStreamNew == [state |-> "new", remaining |-> <<>>, buffer |-> <<>>]

MigrateStart(B, cb) ==
  /\ pc \in {"idle", "done", "failed"}
  /\ Len(results) < MaxRuns
  /\ pc' = MigrateSeq("start")
  /\ batchSize' = B
  /\ onProgress' = cb
  /\ sourceCount' = NoCount
  /\ processedCount' = 0
  /\ targetCount' = NoCount
  /\ success' = FALSE
  /\ esCursor' = EsCursorNew
  /\ batch' = <<>>
  /\ yielded' = <<>>
  /\ openDocs' = EmptyRows
  /\ calls' = <<>>
  /\ progress' = <<>>
  /\ sample' = <<>>
  /\ notFound' = {}
  /\ compared' = "none"
  /\ runMutated' = FALSE
  /\ UNCHANGED <<esIndex, chTable, chStream, results, op, st, seed, main, race>>

TargetCreate ==
  /\ pc = "create"
  /\ \/ /\ chTable' = ChCreate(chTable)
        /\ calls' = Append(calls, Op("target.create", TRUE))
        /\ pc' = MigrateSeq("create")
        /\ UNCHANGED results
     \/ \E failAt \in {"exists", "drop", "create"} :
          /\ failAt = "drop" => chTable.exists
          /\ chTable' = ChCreateFailed(chTable, failAt)
          /\ Raise("target.create", "create")
  /\ UNCHANGED <<esIndex, batchSize, onProgress, sourceCount, processedCount,
                 targetCount, success, esCursor, chStream, batch, yielded,
                 openDocs, progress, sample, notFound, compared, op, st, seed, main, race, runMutated>>

TargetClear ==
  /\ pc = "clear"
  /\ \/ /\ chTable' = ChClear(chTable)
        /\ calls' = Append(calls, Op("target.clear", TRUE))
        /\ pc' = MigrateSeq("clear")
        /\ UNCHANGED results
     \/ /\ Raise("target.clear", "clear")
        /\ UNCHANGED chTable
  /\ UNCHANGED <<esIndex, batchSize, onProgress, sourceCount, processedCount,
                 targetCount, success, esCursor, chStream, batch, yielded,
                 openDocs, progress, sample, notFound, compared, op, st, seed, main, race, runMutated>>

SourceCount ==
  /\ pc = "count"
  /\ \/ /\ esIndex.exists
        /\ sourceCount' = EsCount(esIndex)
        /\ calls' = Append(calls, Op("source.count", TRUE))
        /\ pc' = MigrateSeq("count")
        /\ UNCHANGED results
     \/ /\ Raise("source.count", "count")
        /\ UNCHANGED sourceCount
  /\ UNCHANGED <<esIndex, chTable, batchSize, onProgress, processedCount,
                 targetCount, success, esCursor, chStream, batch, yielded,
                 openDocs, progress, sample, notFound, compared, op, st, seed, main, race, runMutated>>

\* ES findAll resumed: what the records left in the scroll are
EsSnapshot == IF esCursor.state = "new" THEN esIndex.docs ELSE esCursor.remaining

\* ES findAll resumed and answered with `page`: break, or yield the page
EsAdvance(page) ==
  /\ openDocs' = IF esCursor.state = "new" THEN RowsOf(esIndex.docs)
                                              ELSE openDocs
  /\ IF EsStop(page)
       THEN /\ esCursor' = [state |-> "done", remaining |-> {}]
            /\ batch' = <<>>
            /\ UNCHANGED yielded
       ELSE /\ esCursor' = [state |-> "open",
                            remaining |-> EsSnapshot \ Range(page)]
            /\ batch' = page
            /\ yielded' = Append(yielded, page)

\* a migration that deletes from the source what it has read
EsReadDeletes(index) == [exists |-> FALSE, docs |-> {}]

\* findAll, count and getSample are searches: the index stays as it is
EsRead(index) == index

\* a loop that asks for the next batch before inserting the one it holds
AfterPullPrefetch(ended) == IF ended THEN "tcount" ELSE "pull"

\* for await (const users of findAll(batchSize)): the body runs with the
\* batch pulled; after the generator's end the loop is left
AfterPull(ended) == IF ended THEN "tcount" ELSE "insert"

\* for await (const users of this.sourceRepository.findAll(batchSize))
PullBatch ==
  /\ pc = "pull"
  /\ \/ /\ esCursor.state = "new" => esIndex.exists
        /\ esCursor.state # "done"
        /\ \E page \in EsScrollPages(EsSnapshot, batchSize) :
             /\ EsAdvance(page)
             /\ pc' = AfterPull(esCursor'.state = "done")
        /\ calls' = Append(calls, Op("source.findAll", TRUE))
        /\ esIndex' = EsRead(esIndex)
        /\ UNCHANGED results
     \/ /\ Raise("source.findAll", "pull")
        /\ esCursor' = [state |-> "done", remaining |-> {}]
        /\ UNCHANGED <<esIndex, batch, yielded, openDocs>>
  /\ UNCHANGED <<chTable, batchSize, onProgress, sourceCount,
                 processedCount, targetCount, success, chStream, progress,
                 sample, notFound, compared, op, st, seed, main, race, runMutated>>

\* a catch block that empties the destination before rethrowing
CatchClears(table) == ChClear(table)

\* migrate's catch block logs and rethrows: what was inserted stays
CatchLeaves(table) == table

\* processedCount = users.length
ProcessedBatchOnly(count, users) == Len(users)

\* processedCount += users.length
Processed(count, users) == count + Len(users)

\* await insert(users); processedCount += users.length; onProgress(...)
InsertBatch ==
  /\ pc = "insert"
  /\ \/ /\ chTable.exists
        /\ chTable' = ChInsert(chTable, batch)
        /\ processedCount' = Processed(processedCount, batch)
        /\ progress' = IF onProgress
                         THEN Append(progress, <<processedCount', sourceCount>>)
                         ELSE progress
        /\ calls' = Append(calls, Op("target.insert", TRUE))
        /\ pc' = MigrateSeq("insert")
        /\ UNCHANGED results
     \/ /\ Raise("target.insert", "insert")
        /\ chTable' = CatchLeaves(chTable)
        /\ UNCHANGED <<processedCount, progress>>
  /\ UNCHANGED <<esIndex, batchSize, onProgress, sourceCount, targetCount,
                 success, esCursor, chStream, batch, yielded, openDocs, sample,
                 notFound, compared, op, st, seed, main, race, runMutated>>

\* targetCount, success, and either verifySampleData or the return
TargetCount ==
  /\ pc = "tcount"
  /\ \/ /\ chTable.exists
        /\ targetCount' = ChCount(chTable)
        /\ success' = Success(sourceCount, targetCount', processedCount)
        /\ calls' = Append(calls, Op("target.count", TRUE))
        /\ IF RunVerify(success')
             THEN pc' = "sample" /\ UNCHANGED results
             ELSE Return(sourceCount, targetCount', success')
     \/ /\ Raise("target.count", "tcount")
        /\ UNCHANGED <<targetCount, success>>
  /\ UNCHANGED <<esIndex, chTable, batchSize, onProgress, sourceCount,
                 processedCount, esCursor, chStream, batch, yielded, openDocs,
                 progress, sample, notFound, compared, op, st, seed, main, race, runMutated>>

\* verifySampleData: getSample (an error gives []), early return when empty
SourceSample ==
  /\ pc = "sample"
  /\ \E ok \in BOOLEAN :
       /\ ok => esIndex.exists
       /\ sample' = IF ok THEN EsGetSample(esIndex, SampleSize) ELSE <<>>
       /\ calls' = Append(calls, Op("source.getSample", ok))
  /\ IF SampleEmpty(sample')
       THEN Return(sourceCount, targetCount, success)
       ELSE pc' = "lookup" /\ UNCHANGED results
  /\ UNCHANGED <<esIndex, chTable, batchSize, onProgress, sourceCount,
                 processedCount, targetCount, success, esCursor, chStream,
                 batch, yielded, openDocs, progress, notFound, compared, op, st, seed, main, race, runMutated>>

\* verifySampleData: findByIds (an error gives []), the comparison of every
\* sample record with its counterpart, the return
TargetLookup ==
  /\ pc = "lookup"
  /\ \E ok \in BOOLEAN :
       /\ ok => chTable.exists
       /\ LET targetSample == IF ok THEN ChFindByIds(chTable, sample) ELSE <<>>
          IN /\ notFound' = Range(sample) \ Range(targetSample)
             /\ compared' \in Comparisons(Range(sample) \cap Range(targetSample))
       /\ calls' = Append(calls, Op("target.findByIds", ok))
  /\ IF VerifyCatch(compared')
       THEN pc' = MigrateCatch("verify") /\ results' = Append(results, Raised)
       ELSE Return(sourceCount, targetCount, success)
  /\ UNCHANGED <<esIndex, chTable, batchSize, onProgress, sourceCount,
                 processedCount, targetCount, success, esCursor, chStream,
                 batch, yielded, openDocs, progress, sample, runMutated,
                 op, st, seed, main, race>>

\* Someone else adds a document to the source, or deletes one, during a run
SourceMutate ==
  /\ pc \in Running
  /\ ~runMutated
  /\ esIndex.exists
  /\ \E i \in Ids :
       esIndex' = [esIndex EXCEPT !.docs =
                     IF i \in @ THEN @ \ {i} ELSE @ \cup {i}]
  /\ runMutated' = TRUE
  /\ UNCHANGED <<chTable, pc, batchSize, onProgress, sourceCount,
                 processedCount, targetCount, success, esCursor, chStream,
                 batch, yielded, openDocs, calls, progress, sample, results,
                 notFound, compared, op, st, seed, main, race>>

EsStates ==
  {[exists |-> FALSE, docs |-> {}]} \cup
  {[exists |-> TRUE, docs |-> S] : S \in SUBSET Ids}

ChStates ==
  {[exists |-> FALSE, rows |-> EmptyRows]} \cup
  {[exists |-> TRUE, rows |-> RowsOf(S)] : S \in {{}, {1}, Ids}}

Init ==
  /\ esIndex \in EsStates
  /\ chTable \in ChStates
  /\ pc = "idle"
  /\ batchSize = 1
  /\ onProgress = FALSE
  /\ sourceCount = NoCount
  /\ processedCount = 0
  /\ targetCount = NoCount
  /\ success = FALSE
  /\ esCursor = EsCursorNew
  /\ chStream = ChStreamNew
  /\ batch = <<>>
  /\ yielded = <<>>
  /\ openDocs = EmptyRows
  /\ calls = <<>>
  /\ progress = <<>>
  /\ sample = <<>>
  /\ results = <<>>
  /\ notFound = {}
  /\ compared = "none"
  /\ op = NoOp
  /\ st = NoStatus
  /\ seed = NoSeed
  /\ main = NoMain
  /\ race = NoRace
  /\ runMutated = FALSE

Next ==
  \/ \E B \in 1..MaxBatch, cb \in BOOLEAN : MigrateStart(B, cb)
  \/ TargetCreate
  \/ TargetClear
  \/ SourceCount
  \/ PullBatch
  \/ InsertBatch
  \/ TargetCount
  \/ SourceSample
  \/ TargetLookup
  \/ SourceMutate

Spec == Init /\ [][Next]_vars

\* ================================================ a callback that raises
\* await insert(users) succeeds, then onProgress(processedCount, sourceCount)
\* throws: the call stands inside migrate's try block
ProgressThrows ==
  /\ pc = "insert"
  /\ onProgress
  /\ chTable.exists
  /\ chTable' = ChInsert(chTable, batch)
  /\ processedCount' = Processed(processedCount, batch)
  /\ progress' = Append(progress, <<processedCount', sourceCount>>)
  /\ calls' = Append(calls, Op("target.insert", TRUE))
  /\ pc' = MigrateCatch("progress")
  /\ results' = IF pc' = "failed" THEN Append(results, Raised) ELSE results
  /\ UNCHANGED <<esIndex, batchSize, onProgress, sourceCount, targetCount,
                 success, esCursor, chStream, batch, yielded, openDocs, sample,
                 notFound, compared, op, st, seed, main, race, runMutated>>

NextCb == Next \/ ProgressThrows

SpecCb == Init /\ [][NextCb]_vars

\* ================================================= consuming a findAll
\* collectFromGenerator over ES findAll: one more batch, or the end
EsCollect ==
  /\ pc = "collectEs"
  /\ esCursor.state # "done"
  /\ esCursor.state = "new" => esIndex.exists
  /\ \E page \in EsScrollPages(EsSnapshot, batchSize) : EsAdvance(page)
  /\ pc' = IF esCursor'.state = "done" THEN "collected" ELSE pc
  /\ UNCHANGED <<esIndex, chTable, batchSize, onProgress, sourceCount,
                 processedCount, targetCount, success, chStream, calls,
                 progress, sample, results, notFound, compared, op, st, seed, main, race, runMutated>>

\* ClickHouse findAll: the query SELECT * ... ORDER BY id is answered
ChOpen ==
  /\ pc = "collectCh"
  /\ chStream.state = "new"
  /\ chTable.exists
  /\ chStream' = [state |-> "open", remaining |-> OrderById(chTable.rows, 1),
                  buffer |-> <<>>]
  /\ openDocs' = chTable.rows
  /\ UNCHANGED <<esIndex, chTable, pc, batchSize, onProgress, sourceCount,
                 processedCount, targetCount, success, esCursor, batch,
                 yielded, calls, progress, sample, results, notFound, compared, op, st, seed, main, race,
                 runMutated>>

\* ClickHouse findAll: the stream delivers k rows; push them, yield full batches
ChChunk(k) ==
  /\ pc = "collectCh"
  /\ chStream.state = "open"
  /\ k <= Len(chStream.remaining)
  /\ LET users == SubSeq(chStream.remaining, 1, k)
         f == ChFlush(chStream.buffer \o users, batchSize, <<>>)
     IN /\ chStream' = [state |-> "open",
                        remaining |-> SubSeq(chStream.remaining, k + 1,
                                             Len(chStream.remaining)),
                        buffer |-> f.buffer]
        /\ yielded' = yielded \o f.out
  /\ UNCHANGED <<esIndex, chTable, pc, batchSize, onProgress, sourceCount,
                 processedCount, targetCount, success, esCursor, batch,
                 openDocs, calls, progress, sample, results, notFound, compared, op, st, seed, main, race,
                 runMutated>>

\* ClickHouse findAll: the stream has ended; yield what is left in the buffer
ChEnd ==
  /\ pc = "collectCh"
  /\ chStream.state = "open"
  /\ chStream.remaining = <<>>
  /\ yielded' = IF Len(chStream.buffer) > 0
                  THEN Append(yielded, chStream.buffer) ELSE yielded
  /\ chStream' = [state |-> "done", remaining |-> <<>>, buffer |-> <<>>]
  /\ pc' = "collected"
  /\ UNCHANGED <<esIndex, chTable, batchSize, onProgress, sourceCount,
                 processedCount, targetCount, success, esCursor, batch,
                 openDocs, calls, progress, sample, results, notFound, compared, op, st, seed, main, race,
                 runMutated>>

\* Someone else inserts a record into, or deletes one from, the store read
StoreMutate ==
  /\ pc \in {"collectEs", "collectCh"}
  /\ ~runMutated
  /\ \E i \in Ids :
       IF pc = "collectEs"
         THEN /\ esIndex' = [esIndex EXCEPT !.docs =
                               IF i \in @ THEN @ \ {i} ELSE @ \cup {i}]
              /\ UNCHANGED chTable
         ELSE /\ \E d \in {0, chTable.rows[i] + 1} :
                   chTable' = [chTable EXCEPT !.rows[i] = d]
              /\ chTable' # chTable
              /\ UNCHANGED esIndex
  /\ runMutated' = TRUE
  /\ UNCHANGED <<pc, batchSize, onProgress, sourceCount, processedCount,
                 targetCount, success, esCursor, chStream, batch, yielded,
                 openDocs, calls, progress, sample, results, notFound, compared, op, st, seed, main, race>>

InitStream ==
  /\ \E S \in SUBSET Ids :
       \/ /\ pc = "collectEs"
          /\ esIndex = [exists |-> TRUE, docs |-> S]
          /\ chTable = [exists |-> TRUE, rows |-> EmptyRows]
       \/ /\ pc = "collectCh"
          /\ esIndex = [exists |-> TRUE, docs |-> {}]
          /\ chTable = [exists |-> TRUE, rows |-> RowsOf(S)]
  /\ batchSize \in 1..MaxBatch
  /\ onProgress = FALSE
  /\ sourceCount = NoCount
  /\ processedCount = 0
  /\ targetCount = NoCount
  /\ success = FALSE
  /\ esCursor = EsCursorNew
  /\ chStream = ChStreamNew
  /\ batch = <<>>
  /\ yielded = <<>>
  /\ openDocs = EmptyRows
  /\ calls = <<>>
  /\ progress = <<>>
  /\ sample = <<>>
  /\ results = <<>>
  /\ notFound = {}
  /\ compared = "none"
  /\ op = NoOp
  /\ st = NoStatus
  /\ seed = NoSeed
  /\ main = NoMain
  /\ race = NoRace
  /\ runMutated = FALSE

NextStream ==
  \/ EsCollect
  \/ ChOpen
  \/ \E k \in 1..MaxChunk : ChChunk(k)
  \/ ChEnd
  \/ StoreMutate

SpecStream == InitStream /\ [][NextStream]_vars

\* The consumer's for-await loop keeps asking and the store keeps answering
SpecStreamLive == SpecStream /\ WF_vars(NextStream)

\* ============================== repository operations called on their own
Adapters == {"es", "ch"}

migrateVars == <<pc, batchSize, onProgress, sourceCount, processedCount,
                 targetCount, success, esCursor, chStream, batch, yielded,
                 openDocs, calls, progress, sample, results, notFound,
                 compared, runMutated, seed, main, race>>

Store(a) == IF a = "es" THEN esIndex ELSE chTable

SetStore(a, v) ==
  IF a = "es" THEN esIndex' = v /\ UNCHANGED chTable
              ELSE chTable' = v /\ UNCHANGED esIndex

\* The identifiers of the records a store holds
StoredIds(a) ==
  IF a = "es" THEN esIndex.docs ELSE {i \in Ids : chTable.rows[i] > 0}

\* The identifiers of S as a list in ascending order
Listed(S) == OrderById(RowsOf(S), 1)

\* ES create(): delete the index when it exists, then indices.create
EsCreate(index) == [exists |-> TRUE, docs |-> {}]

\* ES create() when the request `failAt` raises: "exists", "drop" or "create"
EsCreateFailed(index, failAt) ==
  IF failAt = "create" /\ index.exists
    THEN [exists |-> FALSE, docs |-> {}] ELSE index

\* ES clear(): indices.delete with ignore_unavailable
EsClear(index) == [exists |-> FALSE, docs |-> {}]

\* ES insert(): bulk index operations without _id; the items of `failed` are
\* rejected by the server, the others are indexed (and the index is created
\* when the first document arrives)
EsInsert(index, users, failed) ==
  IF Len(users) = 0 THEN index
  ELSE [exists |-> TRUE, docs |-> index.docs \cup (Range(users) \ failed)]

\* The _id Elasticsearch generates for a document indexed without one: never
\* the value of the document's id field
EsAutoId(i) == MaxId + i

\* ES findByIds(ids): search with query ids: { values: ids }, which matches
\* on the document _id
EsFindByIds(index, ids) ==
  IF Len(ids) = 0 THEN <<>>
  ELSE Listed({i \in index.docs : EsAutoId(i) \in Range(ids)})

\* ClickHouse getSample(count): SELECT * ... ORDER BY id LIMIT count
ChGetSample(table, count) ==
  LET all == OrderById(table.rows, 1)
  IN SubSeq(all, 1, Min(count, Len(all)))

\* findByIds without the early return for an empty list
FindByIdsNoShortcut(ids) == FALSE

\* findByIds: if (ids.length === 0) return []
FindByIdsShortcut(ids) == Len(ids) = 0

\* What the catch block of operation `name` does with an error: both
\* adapters log and rethrow, except getSample and findByIds, which log and
\* return []
CatchOutcome(name) ==
  IF name \in {"getSample", "findByIds"} THEN "returned" ELSE "raised"

\* The request that create()'s k-th client request is
CreateRequest(k, existed) ==
  CASE k = 1 -> "exists"
    [] k = 2 -> IF existed THEN "drop" ELSE "create"
    [] k = 3 -> "create"

\* An operation `name` of adapter a called with `arg`, before its outcome
Call(a, name, arg) ==
  [adapter |-> a, name |-> name, arg |-> arg, outcome |-> "returned",
   result |-> <<>>, requests |-> 0, transportFailed |-> FALSE,
   itemsFailed |-> {}, count |-> 0, flag |-> FALSE, seq |-> op.seq + 1,
   had |-> IF name = "create" THEN StoredIds(a) ELSE {}]

\* The operation ends in its catch block after `n` requests
Caught(c, n, transport) ==
  [c EXCEPT !.outcome = CatchOutcome(c.name), !.requests = n,
            !.transportFailed = transport]

RepoExists(a) ==
  /\ op.seq < MaxOps
  /\ \E fail \in BOOLEAN :
       op' = IF fail THEN Caught(Call(a, "exists", <<>>), 1, TRUE)
             ELSE [Call(a, "exists", <<>>) EXCEPT !.requests = 1,
                                                 !.flag = Store(a).exists]
  /\ UNCHANGED <<esIndex, chTable, st>>
  /\ UNCHANGED migrateVars

RepoCreate(a) ==
  /\ op.seq < MaxOps
  /\ LET n == IF Store(a).exists THEN 3 ELSE 2
         c == Call(a, "create", <<>>)
     IN \E k \in 0..n :
          IF k = 0
            THEN /\ op' = [c EXCEPT !.requests = n]
                 /\ SetStore(a, IF a = "es" THEN EsCreate(esIndex)
                                            ELSE ChCreate(chTable))
            ELSE /\ op' = Caught(c, k, TRUE)
                 /\ SetStore(a,
                      IF a = "es"
                        THEN EsCreateFailed(esIndex,
                               CreateRequest(k, esIndex.exists))
                        ELSE ChCreateFailed(chTable,
                               CreateRequest(k, chTable.exists)))
  /\ UNCHANGED st
  /\ UNCHANGED migrateVars

RepoClear(a) ==
  /\ op.seq < MaxOps
  /\ LET n == IF a = "ch" /\ chTable.exists THEN 2 ELSE 1
         c == Call(a, "clear", <<>>)
     IN \E k \in 0..n :
          IF k = 0
            THEN /\ op' = [c EXCEPT !.requests = n]
                 /\ SetStore(a, IF a = "es" THEN EsClear(esIndex)
                                            ELSE ChClear(chTable))
            ELSE /\ op' = Caught(c, k, TRUE)
                 /\ UNCHANGED <<esIndex, chTable>>
  /\ UNCHANGED st
  /\ UNCHANGED migrateVars

\* insert(users): an empty batch returns at once; Elasticsearch answers a bulk
\* request per item and the adapter only warns about the items that failed;
\* ClickHouse rejects the whole INSERT when a row or the table is bad
RepoInsert(a, users) ==
  /\ op.seq < MaxOps
  /\ a = "es" => Range(users) \cap esIndex.docs = {}
  /\ LET c == Call(a, "insert", users)
     IN IF Len(users) = 0
          THEN /\ op' = c
               /\ UNCHANGED <<esIndex, chTable>>
          ELSE \/ /\ op' = Caught(c, 1, TRUE)
                  /\ UNCHANGED <<esIndex, chTable>>
               \/ \E failed \in IF a = "es" THEN SUBSET Range(users)
                                  ELSE {{}, Range(users)} :
                    IF a = "es"
                      THEN /\ op' = [c EXCEPT !.requests = 1,
                                              !.itemsFailed = failed]
                           /\ esIndex' = EsInsert(esIndex, users, failed)
                           /\ UNCHANGED chTable
                      ELSE IF failed # {} \/ ~chTable.exists
                        THEN /\ op' = [Caught(c, 1, FALSE) EXCEPT
                                         !.itemsFailed = Range(users)]
                             /\ UNCHANGED <<esIndex, chTable>>
                        ELSE /\ op' = [c EXCEPT !.requests = 1]
                             /\ chTable' = ChInsert(chTable, users)
                             /\ UNCHANGED esIndex
  /\ UNCHANGED st
  /\ UNCHANGED migrateVars

\* count(): the server rejects the request when the store is missing
RepoCount(a) ==
  /\ op.seq < MaxOps
  /\ LET c == Call(a, "count", <<>>)
     IN \E fail \in BOOLEAN :
          op' = IF fail \/ ~Store(a).exists
                  THEN Caught(c, 1, fail)
                  ELSE [c EXCEPT !.requests = 1,
                                 !.count = IF a = "es" THEN EsCount(esIndex)
                                                       ELSE ChCount(chTable)]
  /\ UNCHANGED <<esIndex, chTable, st>>
  /\ UNCHANGED migrateVars

\* findAll(size) pulled once: the first batch, or the error of the first
\* request
RepoFindAll(a, size) ==
  /\ op.seq < MaxOps
  /\ LET c == Call(a, "findAll", <<>>)
     IN \E fail \in BOOLEAN :
          IF fail \/ ~Store(a).exists
            THEN op' = Caught(c, 1, fail)
            ELSE \E page \in IF a = "es"
                               THEN EsScrollPages(esIndex.docs, size)
                               ELSE {ChGetSample(chTable, size)} :
                   op' = [c EXCEPT !.requests = 1, !.result = page]
  /\ UNCHANGED <<esIndex, chTable, st>>
  /\ UNCHANGED migrateVars

RepoGetSample(a, count) ==
  /\ op.seq < MaxOps
  /\ LET c == Call(a, "getSample", <<>>)
     IN \E fail \in BOOLEAN :
          op' = IF fail \/ ~Store(a).exists
                  THEN Caught(c, 1, fail)
                  ELSE [c EXCEPT !.requests = 1,
                                 !.result = IF a = "es"
                                   THEN EsGetSample(esIndex, count)
                                   ELSE ChGetSample(chTable, count)]
  /\ UNCHANGED <<esIndex, chTable, st>>
  /\ UNCHANGED migrateVars

RepoFindByIds(a, ids) ==
  /\ op.seq < MaxOps
  /\ LET c == Call(a, "findByIds", ids)
     IN IF FindByIdsShortcut(ids)
          THEN op' = c
          ELSE \E fail \in BOOLEAN :
                 op' = IF fail \/ ~Store(a).exists
                         THEN Caught(c, 1, fail)
                         ELSE [c EXCEPT !.requests = 1,
                                        !.result = IF a = "es"
                                          THEN EsFindByIds(esIndex, ids)
                                          ELSE ChFindByIds(chTable, ids)]
  /\ UNCHANGED <<esIndex, chTable, st>>
  /\ UNCHANGED migrateVars

\* The batches and identifier lists the operations are called with
IdLists == {Listed(S) : S \in SUBSET Ids}

InitStore ==
  /\ esIndex \in {[exists |-> e, docs |-> {}] : e \in BOOLEAN}
  /\ chTable \in {[exists |-> e, rows |-> EmptyRows] : e \in BOOLEAN}
  /\ pc = "store"
  /\ batchSize = 1
  /\ onProgress = FALSE
  /\ sourceCount = NoCount
  /\ processedCount = 0
  /\ targetCount = NoCount
  /\ success = FALSE
  /\ esCursor = EsCursorNew
  /\ chStream = ChStreamNew
  /\ batch = <<>>
  /\ yielded = <<>>
  /\ openDocs = EmptyRows
  /\ calls = <<>>
  /\ progress = <<>>
  /\ sample = <<>>
  /\ results = <<>>
  /\ notFound = {}
  /\ compared = "none"
  /\ op = NoOp
  /\ st = NoStatus
  /\ seed = NoSeed
  /\ main = NoMain
  /\ race = NoRace
  /\ runMutated = FALSE

NextStore ==
  \/ \E a \in Adapters : RepoExists(a)
  \/ \E a \in Adapters : RepoCreate(a)
  \/ \E a \in Adapters : RepoClear(a)
  \/ \E a \in Adapters, users \in IdLists : RepoInsert(a, users)
  \/ \E a \in Adapters : RepoCount(a)
  \/ \E a \in Adapters, size \in 1..MaxBatch : RepoFindAll(a, size)
  \/ \E a \in Adapters, count \in {1, SampleSize} : RepoGetSample(a, count)
  \/ \E a \in Adapters, ids \in IdLists : RepoFindByIds(a, ids)

SpecStore == InitStore /\ [][NextStore]_vars

\* ================================================================ getStatus
Sides == {"source", "target"}

\* this.sourceRepository is the Elasticsearch adapter, this.targetRepository
\* the ClickHouse one
SideExists(x) == IF x = "source" THEN esIndex.exists ELSE chTable.exists

SideCount(x) == IF x = "source" THEN EsCount(esIndex) ELSE ChCount(chTable)

Event(name, x, what) == [op |-> name, side |-> x, ev |-> what]

\* getStatus calling count() on both stores whatever exists() returned
CountGuardAlways(x, sourceExists, targetExists) == TRUE

\* getStatus guarding each count() with the other store's flag
CountGuardSwapped(x, sourceExists, targetExists) ==
  IF x = "source" THEN targetExists ELSE sourceExists

\* sourceExists ? this.sourceRepository.count() : 0 (and the same for target)
CountGuard(x, sourceExists, targetExists) ==
  IF x = "source" THEN sourceExists ELSE targetExists

statusVars == <<pc, batchSize, onProgress, sourceCount, processedCount,
                targetCount, success, esCursor, chStream, batch, yielded,
                openDocs, calls, progress, sample, results, notFound,
                compared, runMutated, op, seed, main, race>>

\* No getStatus call is under way and none of its requests is outstanding
StatusSettled ==
  /\ st.pc \in {"idle", "done", "failed"}
  /\ \A x \in Sides : st.exists[x] # "pending" /\ st.count[x] # "pending"

\* A store is created between two getStatus calls (the previous call's
\* result is dropped)
StatusCreate(x) ==
  /\ StatusSettled
  /\ IF x = "source"
       THEN esIndex' = EsCreate(esIndex) /\ UNCHANGED chTable
       ELSE chTable' = ChCreate(chTable) /\ UNCHANGED esIndex
  /\ st' = [NoStatus EXCEPT !.calls = st.calls]
  /\ UNCHANGED statusVars

\* A record is inserted into a store between two getStatus calls
StatusInsert(x, i) ==
  /\ StatusSettled
  /\ SideExists(x)
  /\ IF x = "source"
       THEN /\ i \notin esIndex.docs
            /\ esIndex' = EsInsert(esIndex, <<i>>, {})
            /\ UNCHANGED chTable
       ELSE /\ chTable.rows[i] = 0
            /\ chTable' = ChInsert(chTable, <<i>>)
            /\ UNCHANGED esIndex
  /\ st' = [NoStatus EXCEPT !.calls = st.calls]
  /\ UNCHANGED statusVars

\* getStatus(): Promise.all([source.exists(), target.exists()]) starts both
\* checks before the await
StatusStart ==
  /\ StatusSettled
  /\ st.calls < MaxStatus
  /\ st' = [pc |-> "exists",
            exists |-> [x \in Sides |-> "pending"],
            count |-> [x \in Sides |-> "idle"],
            n |-> [x \in Sides |-> 0],
            events |-> <<Event("exists", "source", "start"),
                         Event("exists", "target", "start")>>,
            calls |-> st.calls + 1]
  /\ UNCHANGED <<esIndex, chTable>>
  /\ UNCHANGED statusVars

\* The counts the second Promise.all starts, given both flags
CountsStarted(flags) ==
  {x \in Sides : CountGuard(x, flags["source"] = "true",
                               flags["target"] = "true")}

\* exists() of one store settles; a rejection makes getStatus raise, the last
\* of two fulfilments resumes getStatus, which starts the guarded counts (or
\* returns when there is none to wait for)
StatusExistsSettles(x) ==
  /\ st.exists[x] = "pending"
  /\ \E fail \in BOOLEAN :
       LET res == IF fail THEN "failed"
                  ELSE IF SideExists(x) THEN "true" ELSE "false"
           flags == [st.exists EXCEPT ![x] = res]
           ev == Append(st.events, Event("exists", x, res))
           resumed == st.pc = "exists"
                        /\ \A y \in Sides : flags[y] \in {"true", "false"}
           started == CountsStarted(flags)
           starts == (IF "source" \in started
                        THEN <<Event("count", "source", "start")>> ELSE <<>>)
                     \o (IF "target" \in started
                           THEN <<Event("count", "target", "start")>> ELSE <<>>)
       IN st' = [st EXCEPT
                   !.exists = flags,
                   !.events = IF resumed THEN ev \o starts ELSE ev,
                   !.count = IF resumed
                               THEN [y \in Sides |-> IF y \in started
                                       THEN "pending" ELSE "skipped"]
                               ELSE @,
                   !.pc = IF fail THEN "failed"
                          ELSE IF resumed
                            THEN (IF started = {} THEN "done" ELSE "count")
                            ELSE @]
  /\ UNCHANGED <<esIndex, chTable>>
  /\ UNCHANGED statusVars

\* count() of one store settles: the number, a transport failure, or the
\* store's own error when the index or table does not exist
StatusCountSettles(x) ==
  /\ st.count[x] = "pending"
  /\ \E fail \in BOOLEAN :
       LET res == IF fail THEN "failed"
                  ELSE IF SideExists(x) THEN "done" ELSE "missing"
           counts == [st.count EXCEPT ![x] = res]
       IN st' = [st EXCEPT
                   !.count = counts,
                   !.n = IF res = "done" THEN [@ EXCEPT ![x] = SideCount(x)]
                         ELSE @,
                   !.events = Append(@, Event("count", x, res)),
                   !.pc = IF res # "done" THEN "failed"
                          ELSE IF st.pc = "count"
                                  /\ \A y \in Sides : counts[y] # "pending"
                            THEN "done" ELSE @]
  /\ UNCHANGED <<esIndex, chTable>>
  /\ UNCHANGED statusVars

InitStatus ==
  /\ InitStore

NextStatus ==
  \/ \E x \in Sides : StatusCreate(x)
  \/ \E x \in Sides, i \in Ids : StatusInsert(x, i)
  \/ StatusStart
  \/ \E x \in Sides : StatusExistsSettles(x)
  \/ \E x \in Sides : StatusCountSettles(x)

SpecStatus == InitStatus /\ [][NextStatus]_vars

\* ================================================== SeedingService.seed
seedFrame == <<chTable, pc, batchSize, onProgress, sourceCount, processedCount,
               targetCount, success, esCursor, chStream, batch, yielded,
               openDocs, calls, progress, sample, results, notFound,
               compared, runMutated, op, st, main, race>>

\* generateUsersInBatches: a loop step that leaves i as it is
GenAdvanceStuck(i, size) == i

\* generateUsersInBatches: i += batchSize
GenAdvance(i, size) == i + size

\* generateUsersInBatches: i < totalCount
GenMore(i, totalCount) == i < totalCount

\* generateUsers(Math.min(batchSize, totalCount - i)): the batch's length
GenBatchSize(i, totalCount, size) == Min(size, totalCount - i)

\* generateUser(): records with fresh identifiers, here the least ones that
\* neither the index nor this call has used
GenUsers(n, taken) ==
  LET free == Listed(Ids \ taken) IN SubSeq(free, 1, Min(n, Len(free)))

SeedRunning == {"create", "generate", "insert", "count"}

\* seed(userCount, { cleanup, batchSize })
SeedStart(userCount, size, cleanup) ==
  /\ seed.pc \in {"idle", "done", "failed"}
  /\ seed.calls < MaxSeeds
  /\ cleanup \/ userCount + Cardinality(esIndex.docs) <= MaxId
  /\ seed' = [NoSeed EXCEPT !.pc = IF cleanup THEN "create" ELSE "generate",
                            !.userCount = userCount,
                            !.batchSize = size,
                            !.cleanup = cleanup,
                            !.calls = seed.calls + 1,
                            !.had = Cardinality(esIndex.docs)]
  /\ UNCHANGED esIndex
  /\ UNCHANGED seedFrame

\* if (cleanup) await this.repository.create()
SeedCreate ==
  /\ seed.pc = "create"
  /\ \/ /\ esIndex' = EsCreate(esIndex)
        /\ seed' = [seed EXCEPT !.pc = "generate"]
     \/ \E k \in 1..(IF esIndex.exists THEN 3 ELSE 2) :
          /\ esIndex' = EsCreateFailed(esIndex,
                          CreateRequest(k, esIndex.exists))
          /\ seed' = [seed EXCEPT !.pc = "failed"]
  /\ UNCHANGED seedFrame

\* The for-await loop asks the generator for the next batch
SeedGenerate ==
  /\ seed.pc = "generate"
  /\ Len(seed.sizes) <= MaxId
  /\ IF GenMore(seed.i, seed.userCount)
       THEN LET n == GenBatchSize(seed.i, seed.userCount, seed.batchSize)
                users == GenUsers(n, esIndex.docs \cup seed.used)
            IN seed' = [seed EXCEPT
                          !.pc = "insert",
                          !.users = users,
                          !.used = @ \cup Range(users),
                          !.sizes = Append(@, Len(users)),
                          !.i = GenAdvance(@, seed.batchSize)]
       ELSE seed' = [seed EXCEPT !.pc = "count"]
  /\ UNCHANGED esIndex
  /\ UNCHANGED seedFrame

\* await this.repository.insert(users); processedCount += users.length
SeedInsert ==
  /\ seed.pc = "insert"
  /\ \/ /\ Len(seed.users) > 0
        /\ seed' = [seed EXCEPT !.pc = "failed"]
        /\ UNCHANGED esIndex
     \/ \E failed \in SUBSET Range(seed.users) :
          /\ esIndex' = EsInsert(esIndex, seed.users, failed)
          /\ seed' = [seed EXCEPT
                        !.pc = "generate",
                        !.rejected = @ \cup failed,
                        !.processedCount = Processed(@, seed.users)]
  /\ UNCHANGED seedFrame

\* const finalCount = await this.repository.count()
SeedCount ==
  /\ seed.pc = "count"
  /\ \/ /\ esIndex.exists
        /\ seed' = [seed EXCEPT !.pc = "done", !.finalCount = EsCount(esIndex)]
     \/ seed' = [seed EXCEPT !.pc = "failed"]
  /\ UNCHANGED esIndex
  /\ UNCHANGED seedFrame

InitSeed ==
  /\ InitStore

NextSeed ==
  \/ \E userCount \in 0..MaxId, size \in 0..MaxBatch, cleanup \in BOOLEAN :
       SeedStart(userCount, size, cleanup)
  \/ SeedCreate
  \/ SeedGenerate
  \/ SeedInsert
  \/ SeedCount

SpecSeed == InitSeed /\ [][NextSeed]_vars

SpecSeedLive == SpecSeed /\ WF_vars(NextSeed)

\* ==================================================== command-line scripts
mainFrame == <<esIndex, chTable, pc, batchSize, onProgress, sourceCount,
               processedCount, targetCount, success, esCursor, chStream, batch,
               yielded, openDocs, calls, progress, sample, results, notFound,
               compared, runMutated, op, st, seed, race>>

\* A variable of the environment is not set ("unset"), set to a value its
\* validator rejects ("bad"), or set to a valid value ("ok")
Envs == [EnvVars -> {"unset", "bad", "ok"}]

\* getString: one validation error for a value the validator rejects (every
\* variable has a default, so a missing one is no error)
StringErrors(raw) == IF raw = "bad" THEN 1 ELSE 0

\* getInteger: the error of getString plus "must be a positive integer"
IntegerErrors(raw) == IF raw = "bad" THEN 2 ELSE 0

\* getInteger's value: the variable's, or the default as fallback
IntegerValue(raw, value, default) == IF raw = "ok" THEN value ELSE default

\* The validation errors pushed while the config modules are loaded
ImportErrors(env) ==
  StringErrors(env["ELASTIC_NODE"]) + StringErrors(env["CLICKHOUSE_HOST"])
    + IntegerErrors(env["BATCH_SIZE"]) + IntegerErrors(env["MOCK_USERS_COUNT"])

\* envValidator.reset(): this.validationErrors = []
ValidatorReset(errors) == 0

\* envValidator.hasErrors()
HasErrors(errors) == errors > 0

\* new Client({ node }) / createClient({ url }) throws on a string that is
\* no URL (getString hands back the rejected value)
ClientThrows(raw) == raw = "bad"

\* What the awaited service call can settle to: migrate's result with
\* success = (sourceCount === targetCount), or an error; seed resolves with
\* no value or raises
MainResults(script) ==
  IF script = "migrate"
    THEN {Raised} \cup {Returned(1, tc, Success(1, tc, 1)) : tc \in 0..1}
    ELSE {Raised, Returned(0, 0, TRUE)}

\* a script that exits only from its catch block
ExitsOnlyWhenRaised(script, result) == result.kind = "raised"

\* process.exit(1) is called: in the catch block, and in the migrate script
\* for a result with success false
Exits(script, result) ==
  \/ result.kind = "raised"
  \/ script = "migrate" /\ ~result.success

\* The script is started (ts-node loads the modules, which builds the config
\* objects and validates the environment); main() is entered
MainLaunch(script, env, exitOnError) ==
  /\ main.pc \in {"idle", "exited"}
  /\ main.launches < MaxLaunches
  /\ main' = [NoMain EXCEPT
                !.pc = "init",
                !.script = script,
                !.exitOnError = exitOnError,
                !.env = env,
                !.errors = ImportErrors(env),
                !.batchSize = IntegerValue(env["BATCH_SIZE"], 2,
                                           DefaultBatchSize),
                !.mockUsersCount = IntegerValue(env["MOCK_USERS_COUNT"], 3,
                                                DefaultMockUsersCount),
                !.launches = main.launches + 1]
  /\ UNCHANGED mainFrame

\* initializeConfig(exitOnError): reset the validator, take the config
\* objects, exit with code 1 if the validator has errors
MainInitializeConfig ==
  /\ main.pc = "init"
  /\ LET errors == ValidatorReset(main.errors)
     IN main' = IF HasErrors(errors) /\ main.exitOnError
                  THEN [main EXCEPT !.pc = "exited", !.exit = 1,
                                    !.errors = errors]
                  ELSE [main EXCEPT !.pc = "clients", !.errors = errors]
  /\ UNCHANGED mainFrame

\* DatabaseClientFactory.createClients (createElasticsearchClient in the seed
\* script), outside the try: an exception rejects main(), and the unhandled
\* rejection ends the process with code 1
MainCreateClients ==
  /\ main.pc = "clients"
  /\ main' =
       IF ClientThrows(main.env["ELASTIC_NODE"])
         THEN [main EXCEPT !.pc = "exited", !.exit = 1]
       ELSE IF main.script = "migrate"
               /\ ClientThrows(main.env["CLICKHOUSE_HOST"])
         THEN [main EXCEPT !.pc = "exited", !.exit = 1, !.es = "open"]
       ELSE [main EXCEPT !.pc = "await", !.es = "open",
                         !.ch = IF main.script = "migrate" THEN "open"
                                ELSE "none"]
  /\ UNCHANGED mainFrame

\* await migrate(...) / await seed(...) settles; process.exit(1) ends the
\* process at once, before the finally block
MainSettle(result) ==
  /\ main.pc = "await"
  /\ main' = IF Exits(main.script, result)
               THEN [main EXCEPT !.pc = "exited", !.exit = 1,
                                 !.result = result]
               ELSE [main EXCEPT !.pc = "finally", !.result = result]
  /\ UNCHANGED mainFrame

\* finally: await clients.elasticsearch.close()
MainCloseEs ==
  /\ main.pc = "finally"
  /\ main' = [main EXCEPT !.es = "closed",
                          !.pc = IF main.script = "migrate" THEN "closeCh"
                                 ELSE "resolved"]
  /\ UNCHANGED mainFrame

\* finally: await clients.clickhouse.close()
MainCloseCh ==
  /\ main.pc = "closeCh"
  /\ main' = [main EXCEPT !.ch = "closed", !.pc = "resolved"]
  /\ UNCHANGED mainFrame

\* main() has resolved and nothing is left to do: the process ends with
\* code 0
MainEnd ==
  /\ main.pc = "resolved"
  /\ main' = [main EXCEPT !.pc = "exited", !.exit = 0]
  /\ UNCHANGED mainFrame

InitMain ==
  /\ InitStore

NextMain ==
  \/ \E script \in {"migrate", "seed"}, env \in Envs, x \in BOOLEAN :
       MainLaunch(script, env, x)
  \/ MainInitializeConfig
  \/ MainCreateClients
  \/ \E result \in MainResults(main.script) : MainSettle(result)
  \/ MainCloseEs
  \/ MainCloseCh
  \/ MainEnd

SpecMain == InitMain /\ [][NextMain]_vars

\* ===================================== MigrationService: migrate, getStatus
\* The calls of one MigrationService on its two repositories, one call at a
\* time and nobody else writing to the stores
NextService ==
  \/ \E B \in 1..MaxBatch, cb \in BOOLEAN : StatusSettled /\ MigrateStart(B, cb)
  \/ TargetCreate
  \/ TargetClear
  \/ SourceCount
  \/ PullBatch
  \/ InsertBatch
  \/ TargetCount
  \/ SourceSample
  \/ TargetLookup
  \/ pc \notin Running /\ StatusStart
  \/ \E x \in Sides : StatusExistsSettles(x)
  \/ \E x \in Sides : StatusCountSettles(x)

SpecService == Init /\ [][NextService]_vars

\* ===================================== two migrate() calls at the same time
raceFrame == <<esIndex, pc, batchSize, onProgress, sourceCount, processedCount,
               targetCount, success, esCursor, chStream, batch, yielded,
               openDocs, calls, progress, sample, results, notFound,
               compared, runMutated, op, st, seed, main>>

RaceRunning == {"create", "drop", "createTable", "clear", "truncate", "count",
                "pull", "insert", "tcount"}

Other(r) == 3 - r

\* Run r goes on to `to`, with the fields of `with` assigned
RaceGoes(r, to, with) ==
  [race EXCEPT !.run[r] = [f \in DOMAIN NoRun |->
     IF f = "pc" THEN to
     ELSE IF f \in DOMAIN with THEN with[f] ELSE race.run[r][f]]]

\* Run r executes a statement of create() or clear() on the destination: it
\* does so after the other run has inserted a batch, or not
RaceWrites(r, next) ==
  [next EXCEPT !.raced = @ \/ race.run[Other(r)].inserted > 0]

\* migrate({ batchSize }) is called; nothing keeps it from starting while
\* the other call is running
RaceStart(r, size) ==
  /\ race.run[r].pc = "idle"
  /\ race' = [RaceGoes(r, MigrateSeq("start"), [batchSize |-> size])
                EXCEPT !.overlapped =
                  @ \/ race.run[Other(r)].pc \in RaceRunning]
  /\ UNCHANGED chTable
  /\ UNCHANGED raceFrame

\* create(): const tableExists = await this.exists()
RaceCreateExists(r) ==
  /\ race.run[r].pc = "create"
  /\ race' = RaceGoes(r, IF chTable.exists THEN "drop" ELSE "createTable",
                      [existed |-> chTable.exists])
  /\ UNCHANGED chTable
  /\ UNCHANGED raceFrame

\* create(): DROP TABLE, an error when the table is gone meanwhile
RaceDrop(r) ==
  /\ race.run[r].pc = "drop"
  /\ IF chTable.exists
       THEN /\ chTable' = ChDrop(chTable)
            /\ race' = RaceWrites(r, RaceGoes(r, "createTable", <<>>))
       ELSE /\ race' = RaceGoes(r, MigrateCatch("create"), <<>>)
            /\ UNCHANGED chTable
  /\ UNCHANGED raceFrame

\* create(): CREATE TABLE, an error when the table is there (again)
RaceCreateTable(r) ==
  /\ race.run[r].pc = "createTable"
  /\ IF ~chTable.exists
       THEN /\ chTable' = ChCreate(chTable)
            /\ race' = RaceWrites(r, RaceGoes(r, MigrateSeq("create"), <<>>))
       ELSE /\ race' = RaceGoes(r, MigrateCatch("create"), <<>>)
            /\ UNCHANGED chTable
  /\ UNCHANGED raceFrame

\* clear(): const tableExists = await this.exists()
RaceClearExists(r) ==
  /\ race.run[r].pc = "clear"
  /\ race' = RaceGoes(r, IF chTable.exists THEN "truncate"
                         ELSE MigrateSeq("clear"),
                      [existed |-> chTable.exists])
  /\ UNCHANGED chTable
  /\ UNCHANGED raceFrame

\* clear(): TRUNCATE TABLE, an error when the table is gone meanwhile
RaceTruncate(r) ==
  /\ race.run[r].pc = "truncate"
  /\ IF chTable.exists
       THEN /\ chTable' = ChClear(chTable)
            /\ race' = RaceWrites(r, RaceGoes(r, MigrateSeq("clear"), <<>>))
       ELSE /\ race' = RaceGoes(r, MigrateCatch("clear"), <<>>)
            /\ UNCHANGED chTable
  /\ UNCHANGED raceFrame

\* const sourceCount = await this.sourceRepository.count()
RaceSourceCount(r) ==
  /\ race.run[r].pc = "count"
  /\ race' = RaceGoes(r, MigrateSeq("count"),
                      [sourceCount |-> EsCount(esIndex)])
  /\ UNCHANGED chTable
  /\ UNCHANGED raceFrame

\* The run's own scroll cursor yields its next batch, or ends
RacePull(r) ==
  /\ race.run[r].pc = "pull"
  /\ LET cur == race.run[r].cursor
         left == IF cur.state = "new" THEN esIndex.docs ELSE cur.remaining
     IN \E page \in EsScrollPages(left, race.run[r].batchSize) :
          race' = IF EsStop(page)
                    THEN RaceGoes(r, AfterPull(TRUE),
                           [cursor |-> [state |-> "done", remaining |-> {}],
                            users |-> <<>>])
                    ELSE RaceGoes(r, AfterPull(FALSE),
                           [cursor |-> [state |-> "open",
                                        remaining |-> left \ Range(page)],
                            users |-> page])
  /\ UNCHANGED chTable
  /\ UNCHANGED raceFrame

\* await this.targetRepository.insert(users), an error when the table is
\* gone
RaceInsert(r) ==
  /\ race.run[r].pc = "insert"
  /\ IF chTable.exists
       THEN /\ chTable' = ChInsert(chTable, race.run[r].users)
            /\ race' = RaceGoes(r, MigrateSeq("insert"),
                         [inserted |-> race.run[r].inserted + 1,
                          processedCount |->
                            Processed(race.run[r].processedCount,
                                      race.run[r].users)])
       ELSE /\ race' = RaceGoes(r, MigrateCatch("insert"), <<>>)
            /\ UNCHANGED chTable
  /\ UNCHANGED raceFrame

\* targetCount = await this.targetRepository.count(); success; return
RaceTargetCount(r) ==
  /\ race.run[r].pc = "tcount"
  /\ race' = IF chTable.exists
               THEN RaceGoes(r, "done",
                      [targetCount |-> ChCount(chTable),
                       success |-> Success(race.run[r].sourceCount,
                                           ChCount(chTable),
                                           race.run[r].processedCount)])
               ELSE RaceGoes(r, MigrateCatch("tcount"), <<>>)
  /\ UNCHANGED chTable
  /\ UNCHANGED raceFrame

InitRace ==
  /\ esIndex \in {[exists |-> TRUE, docs |-> S] : S \in SUBSET Ids}
  /\ chTable \in {[exists |-> FALSE, rows |-> EmptyRows]}
                \cup {[exists |-> TRUE, rows |-> RowsOf(T)] : T \in SUBSET Ids}
  /\ pc = "race"
  /\ batchSize = 1
  /\ onProgress = FALSE
  /\ sourceCount = NoCount
  /\ processedCount = 0
  /\ targetCount = NoCount
  /\ success = FALSE
  /\ esCursor = EsCursorNew
  /\ chStream = ChStreamNew
  /\ batch = <<>>
  /\ yielded = <<>>
  /\ openDocs = EmptyRows
  /\ calls = <<>>
  /\ progress = <<>>
  /\ sample = <<>>
  /\ results = <<>>
  /\ notFound = {}
  /\ compared = "none"
  /\ op = NoOp
  /\ st = NoStatus
  /\ seed = NoSeed
  /\ main = NoMain
  /\ race = NoRace
  /\ runMutated = FALSE

NextRace ==
  \/ \E r \in 1..2, size \in 1..MaxBatch : RaceStart(r, size)
  \/ \E r \in 1..2 : RaceCreateExists(r)
  \/ \E r \in 1..2 : RaceDrop(r)
  \/ \E r \in 1..2 : RaceCreateTable(r)
  \/ \E r \in 1..2 : RaceClearExists(r)
  \/ \E r \in 1..2 : RaceTruncate(r)
  \/ \E r \in 1..2 : RaceSourceCount(r)
  \/ \E r \in 1..2 : RacePull(r)
  \/ \E r \in 1..2 : RaceInsert(r)
  \/ \E r \in 1..2 : RaceTargetCount(r)

SpecRace == InitRace /\ [][NextRace]_vars

\* ================================================================ claims
LastResult == results[Len(results)]

CallsOf(name) == {i \in 1..Len(calls) : calls[i].op = name}

OkCallsOf(name) == {i \in CallsOf(name) : calls[i].ok}

\* The store operations migrate itself awaits (verifySampleData's are not)
MigrateSteps == {"target.create", "target.clear", "source.count",
                 "source.findAll", "target.insert", "target.count"}

\* C1: when migrate(B) has returned from a run during which the source was
\* not changed, sourceCount = targetCount, and the destination holds exactly
\* the source's identifiers, each once.
C1_MigrateCopiesEveryRecord ==
  (pc = "done" /\ ~runMutated) =>
    /\ LastResult.kind = "returned"
    /\ LastResult.sourceCount = LastResult.targetCount
    /\ LastResult.sourceCount = Cardinality(esIndex.docs)
    /\ chTable.exists
    /\ chTable.rows = RowsOf(esIndex.docs)

C1_Witness ==
  /\ pc = "done"
  /\ ~runMutated
  /\ batchSize = 2
  /\ esIndex.docs = Ids
  /\ Len(yielded) = 2
  /\ chTable.rows = RowsOf(Ids)
  /\ LastResult.success

\* C2: in every run, create() and then clear() of the destination complete
\* before source count() and before any insert(); so from the completion of
\* clear() until the first insert completes, the destination exists and is
\* empty, whatever it was before the run.
C2_TargetPreparedFirst ==
  /\ \A i \in CallsOf("source.count") \cup CallsOf("target.insert") :
       /\ i >= 3
       /\ calls[1] = Op("target.create", TRUE)
       /\ calls[2] = Op("target.clear", TRUE)
  /\ (pc \in {"count", "pull", "insert"} /\ OkCallsOf("target.insert") = {}) =>
       /\ chTable.exists
       /\ ChCount(chTable) = 0

C2_Witness ==
  /\ pc = "insert"
  /\ Len(batch) > 0
  /\ OkCallsOf("target.insert") = {}
  /\ calls = <<Op("target.create", TRUE), Op("target.clear", TRUE),
               Op("source.count", TRUE), Op("source.findAll", TRUE)>>
  /\ ChCount(chTable) = 0

\* C3: a failed destination insert() ends the run: it is the last store
\* operation of the run (no later batch is pulled or inserted, no destination
\* count, no sample verification), migrate has raised instead of returning,
\* and onProgress was invoked only for the batches inserted before it.
C3_InsertFailureAborts ==
  \A i \in CallsOf("target.insert") :
    ~calls[i].ok =>
      /\ i = Len(calls)
      /\ pc = "failed"
      /\ LastResult.kind = "raised"
      /\ Cardinality(CallsOf("source.findAll")) = Cardinality(CallsOf("target.insert"))
      /\ Len(progress) = IF onProgress
                           THEN Cardinality(OkCallsOf("target.insert")) ELSE 0
      /\ CallsOf("target.count") = {}
      /\ CallsOf("source.getSample") \cup CallsOf("target.findByIds") = {}

C3_Witness ==
  /\ pc = "failed"
  /\ calls[Len(calls)] = Op("target.insert", FALSE)
  /\ Cardinality(OkCallsOf("target.insert")) = 1
  /\ esCursor.state = "open"
  /\ esCursor.remaining # {}
  /\ onProgress
  /\ Len(progress) = 1

\* C4: an error of any store operation migrate awaits (create, clear, source
\* count, stream advance, insert, destination count) ends the run: the failed
\* operation is the last store operation of the run, it was invoked once, and
\* migrate has raised and returned no result.
C4_AnyStepFailureUnwinds ==
  /\ \A i \in 1..Len(calls) :
       (calls[i].op \in MigrateSteps /\ ~calls[i].ok) =>
         /\ i = Len(calls)
         /\ pc = "failed"
         /\ LastResult.kind = "raised"
         /\ \A j \in 1..(i - 1) : calls[j].ok
  /\ pc = "failed" =>
       /\ Len(calls) > 0
       /\ ~calls[Len(calls)].ok
       /\ LastResult.kind = "raised"
  /\ pc = "done" => LastResult.kind = "returned"

C4_Witness ==
  /\ pc = "failed"
  /\ calls[Len(calls)] = Op("target.count", FALSE)
  /\ Len(yielded) >= 2
  /\ LastResult.kind = "raised"

\* C5: every returned result has success = (sourceCount = targetCount), where
\* sourceCount was returned by source count() before the stream was opened
\* and targetCount by destination count() after the stream ended and the
\* last insert completed; the processed count plays no part.
C5_SuccessIsCountEquality ==
  /\ \A i \in 1..Len(results) :
       results[i].kind = "returned" =>
         results[i].success = (results[i].sourceCount = results[i].targetCount)
  /\ \A i \in OkCallsOf("source.count") :
       \A j \in CallsOf("source.findAll") : i < j
  /\ \A i \in OkCallsOf("target.count") :
       /\ \A j \in CallsOf("source.findAll") \cup CallsOf("target.insert") : j < i
       /\ esCursor.state = "done"
       /\ targetCount = ChCount(chTable)
       /\ success = (sourceCount = targetCount)
  /\ pc = "done" =>
       /\ LastResult.sourceCount = sourceCount
       /\ LastResult.targetCount = targetCount
       /\ LastResult.success = success

C5_Witness ==
  /\ pc = "done"
  /\ LastResult.kind = "returned"
  /\ processedCount = targetCount
  /\ sourceCount # targetCount
  /\ ~LastResult.success

\* C6: sample verification is run iff the counts match: with different
\* counts migrate returns success = FALSE with both counts and calls neither
\* getSample nor findByIds; with equal counts getSample is called before the
\* result is returned.
C6_VerifyIffCountsMatch ==
  \A i \in OkCallsOf("target.count") :
    IF sourceCount # targetCount
      THEN /\ pc = "done"
           /\ i = Len(calls)
           /\ LastResult = Returned(sourceCount, targetCount, FALSE)
           /\ CallsOf("source.getSample") \cup CallsOf("target.findByIds") = {}
      ELSE /\ pc \in {"sample", "lookup", "done"}
           /\ pc # "sample" => CallsOf("source.getSample") = {i + 1}
           /\ pc = "done" => LastResult = Returned(sourceCount, targetCount, TRUE)

C6_Witness ==
  /\ pc = "done"
  /\ OkCallsOf("target.count") # {}
  /\ sourceCount = 3
  /\ targetCount = 2
  /\ LastResult = Returned(3, 2, FALSE)

\* The last two runs both returned and the source was changed during neither
LastTwoUnchanged ==
  /\ Len(results) >= 2
  /\ \A i \in {Len(results) - 1, Len(results)} :
       results[i].kind = "returned" /\ ~results[i].mutated

\* C7: two runs in succession over an unchanged source return the same
\* sourceCount, targetCount and success, and after the second the destination
\* holds each source record once.
C7_MigrateIdempotent ==
  LastTwoUnchanged =>
    /\ results[Len(results) - 1] = results[Len(results)]
    /\ pc = "done" => chTable.rows = RowsOf(esIndex.docs)

C7_Witness ==
  /\ pc = "done"
  /\ LastTwoUnchanged
  /\ LastResult.sourceCount = 3
  /\ LastResult.success
  /\ chTable.rows = RowsOf(Ids)

\* C8: a run over a source that exists and is empty returns sourceCount = 0,
\* targetCount = 0, success = TRUE, inserts nothing, never invokes onProgress,
\* and its sample verification calls getSample but not findByIds.
C8_EmptySource ==
  (pc = "done" /\ ~runMutated /\ esIndex.exists /\ esIndex.docs = {}) =>
    /\ LastResult = Returned(0, 0, TRUE)
    /\ CallsOf("target.insert") = {}
    /\ progress = <<>>
    /\ Cardinality(CallsOf("source.getSample")) = 1
    /\ CallsOf("target.findByIds") = {}
    /\ ChCount(chTable) = 0

C8_Witness ==
  /\ pc = "done"
  /\ ~runMutated
  /\ esIndex.exists
  /\ esIndex.docs = {}
  /\ onProgress
  /\ LastResult = Returned(0, 0, TRUE)
  /\ calls[Len(calls)] = Op("source.getSample", TRUE)

CeilDiv(n, b) == (n + b - 1) \div b

Yields(id) == Occurrences(Flatten(yielded), id)

\* C9: findAll(batchSize) of either adapter delivers the n records of the
\* collection as ceil(n / batchSize) batches, each non-empty and of at most
\* batchSize records, all but the last of exactly batchSize records, however
\* the ClickHouse row stream is chunked.
C9_BatchSizes ==
  /\ \A i \in 1..Len(yielded) :
       /\ Len(yielded[i]) >= 1
       /\ Len(yielded[i]) <= batchSize
       /\ i < Len(yielded) => Len(yielded[i]) = batchSize
  /\ pc = "collected" =>
       Len(yielded) = CeilDiv(RowTotal(openDocs, Ids), batchSize)

C9_Witness ==
  /\ pc = "collected"
  /\ chStream.state = "done"
  /\ batchSize = 2
  /\ Len(yielded) = 2
  /\ Len(yielded[1]) = 2
  /\ Len(yielded[2]) = 1

\* A cursor never yields a record more often than the collection held it when
\* the cursor was opened, and has yielded it exactly that often at the end
ExactlyOnce ==
  /\ \A id \in Ids : Yields(id) <= openDocs[id]
  /\ pc = "collected" => \A id \in Ids : Yields(id) = openDocs[id]

\* C10: a cursor opened by findAll yields every record that was in the
\* collection when it was opened exactly once across its batches, over
\* several pages or chunks too, and then ends.
C10_CursorYieldsEachOnceAndEnds == []ExactlyOnce /\ <>(pc = "collected")

C10_Witness ==
  /\ pc = "collected"
  /\ esCursor.state = "done"
  /\ Len(yielded) = 3
  /\ openDocs = RowsOf(Ids)
  /\ esIndex.docs # Ids

\* The sequence lists identifiers in strictly ascending order
Ascending(ids) == \A i, j \in 1..Len(ids) : i < j => ids[i] < ids[j]

\* C11: the records yielded by findAll of either adapter are in ascending
\* identifier order within each batch and across batches (for a collection
\* whose records have unique identifiers).
C11_YieldedInIdOrder ==
  (\A id \in Ids : openDocs[id] <= 1) => Ascending(Flatten(yielded))

\* C12: an insert that returns normally has stored every record of its batch;
\* an insert never commits part of a batch (or none of it) while returning
\* normally, per-item failures of a bulk request included.
C12_InsertAllOrRaise ==
  (op.name = "insert" /\ op.outcome = "returned")
    => Range(op.arg) \subseteq StoredIds(op.adapter)

\* C13: a transport failure in any adapter operation (exists, create, clear,
\* insert, count, findAll, getSample, findByIds) makes the operation raise; it
\* is never turned into a normal return.
C13_TransportFailureRaises ==
  op.transportFailed => op.outcome = "raised"

\* C17: findByIds called with an empty list of identifiers returns an empty
\* list and sends no request to the store, for both adapters.
C17_EmptyLookupNoRequest ==
  (op.name = "findByIds" /\ Len(op.arg) = 0)
    => op.outcome = "returned" /\ op.result = <<>> /\ op.requests = 0

C17_Witness ==
  /\ op.name = "findByIds" /\ Len(op.arg) = 0
  /\ op.adapter = "es" /\ esIndex.docs # {}

\* C18: findByIds(ids) on a store populated through the adapter's own insert
\* returns exactly the stored records whose identifier is in ids, for both
\* adapters (whenever its request is answered).
C18_LookupReturnsStoredIds ==
  (op.name = "findByIds" /\ op.requests = 1 /\ ~op.transportFailed
     /\ Store(op.adapter).exists)
    => Range(op.result) = Range(op.arg) \cap StoredIds(op.adapter)

\* The current run called the sample verification
Verified == \E i \in 1..Len(calls) : calls[i].op = "source.getSample"

\* C14: sample verification is advisory: a sample record without counterpart,
\* a field mismatch or an error raised while sampling, looking up or
\* comparing never makes migrate raise; migrate returns success = TRUE with
\* the counts it computed before the verification.
C14_VerificationAdvisory ==
  /\ pc = "failed" => ~Verified
  /\ (pc = "done" /\ Verified) =>
       /\ LastResult = Returned(sourceCount, targetCount, TRUE)
       /\ sourceCount = targetCount

C14_Witness ==
  /\ pc = "done" /\ Verified
  /\ compared = "threw"
  /\ notFound # {}

RECURSIVE SumLen(_, _)
\* The number of records in the first n batches
SumLen(bs, n) == IF n = 0 THEN 0 ELSE SumLen(bs, n - 1) + Len(bs[n])

\* C15: when a progress callback is given, it is called exactly once per
\* batch, after the batch's insert and before the next batch is pulled, with
\* (processed, total): processed is the running sum of the batch sizes,
\* strictly increasing and ending at the number of records streamed, and
\* total is the source count, the same in every call.
C15_ProgressOncePerBatch ==
  /\ ~onProgress => progress = <<>>
  /\ (onProgress /\ pc \in Running \cup {"done"}) =>
       /\ Len(progress) = Cardinality(OkCallsOf("target.insert"))
       /\ Len(progress) = IF pc = "insert" THEN Len(yielded) - 1
                          ELSE Len(yielded)
       /\ \A i \in 1..Len(progress) :
            progress[i] = <<SumLen(yielded, i), sourceCount>>
       /\ \A i \in 1..Len(progress) - 1 : progress[i][1] < progress[i + 1][1]

C15_Witness ==
  /\ onProgress /\ pc = "done"
  /\ Len(progress) >= 2
  /\ progress[Len(progress)][1] = Len(Flatten(yielded))

\* C16: the progress callback has no effect on migrate's control flow,
\* whatever it does, raising included: migrate raises only when an operation
\* of a store failed.
C16_CallbackCannotFailMigrate ==
  pc = "failed" => \E i \in 1..Len(calls) : ~calls[i].ok

\* C19: getStatus returns for each store its existence flag and its current
\* record count, 0 for a store that does not exist, and never raises because
\* a store is missing: count() is never answered with the missing-store
\* error, and getStatus raises only on a transport failure.
C19_StatusFlagsAndCounts ==
  /\ \A x \in Sides : st.count[x] # "missing"
  /\ st.pc = "failed" =>
       \E x \in Sides : st.exists[x] = "failed" \/ st.count[x] = "failed"
  /\ st.pc = "done" =>
       \A x \in Sides :
         /\ st.exists[x] = IF SideExists(x) THEN "true" ELSE "false"
         /\ st.n[x] = IF SideExists(x) THEN SideCount(x) ELSE 0

C19_Witness ==
  /\ st.pc = "done"
  /\ st.exists["source"] = "true" /\ st.n["source"] = 2
  /\ st.exists["target"] = "false" /\ st.n["target"] = 0

\* Position of the first event equal to e in the event list, 0 when absent
RECURSIVE Position(_, _, _)
Position(events, e, from) ==
  IF from > Len(events) THEN 0
  ELSE IF events[from] = e THEN from ELSE Position(events, e, from + 1)

\* C20: within one getStatus call both existence checks are started before
\* either settles (they settle in either order), and count() is invoked on a
\* store only after that store's exists() returned true in this call, never
\* on a store whose exists() returned false.
C20_ExistsThenGuardedCount ==
  st.pc # "idle" =>
    /\ st.events[1] = Event("exists", "source", "start")
    /\ st.events[2] = Event("exists", "target", "start")
    /\ \A x \in Sides :
         LET started == Position(st.events, Event("count", x, "start"), 1)
             confirmed == Position(st.events, Event("exists", x, "true"), 1)
         IN /\ started # 0 => (confirmed # 0 /\ confirmed < started)
            /\ st.exists[x] = "false" => started = 0
            /\ st.count[x] \notin {"idle", "skipped"} => started # 0

C20_Witness ==
  /\ st.pc = "done"
  /\ Position(st.events, Event("exists", "target", "false"), 1) = 3
  /\ Position(st.events, Event("exists", "source", "true"), 1) = 4
  /\ Position(st.events, Event("count", "source", "start"), 1) = 5
  /\ Position(st.events, Event("count", "target", "start"), 1) = 0

\* C21: for both adapters, after create() returns normally the collection
\* exists and holds zero records, whatever its prior state (absent, empty or
\* populated): none of its previous records remain.
C21_CreateGivesEmptyStore ==
  (op.name = "create" /\ op.outcome = "returned") =>
    /\ Store(op.adapter).exists
    /\ StoredIds(op.adapter) = {}
    /\ op.adapter = "ch" => ChCount(chTable) = 0
    /\ op.adapter = "es" => EsCount(esIndex) = 0

C21_Witness ==
  /\ op.name = "create" /\ op.outcome = "returned"
  /\ op.adapter = "ch"
  /\ op.had # {}
  /\ op.requests = 3

\* C22: for all N >= 0 and batch sizes >= 1, a seed of N records that returns
\* leaves count() = N when the store was empty, and with cleanup (the
\* default) from any prior state of the store: a second seed brings the count
\* back to N, not 2N.
C22_SeedCountIsN ==
  (seed.pc = "done" /\ seed.batchSize >= 1
     /\ (seed.cleanup \/ seed.had = 0))
    => /\ seed.finalCount = seed.userCount
       /\ EsCount(esIndex) = seed.userCount

RECURSIVE SumOf(_)
\* The sum of a list of numbers
SumOf(ns) == IF ns = <<>> THEN 0 ELSE Head(ns) + SumOf(Tail(ns))

\* The generator of the current seed call has ended
GenEnded == seed.pc \in {"count", "done"}

\* C30 (safety part): for userCount >= 0 and batchSize >= 1, once
\* generateUsersInBatches has ended it has yielded ceil(userCount / batchSize)
\* batches whose sizes sum to userCount; with a batchSize that is not positive
\* (checked nowhere) and userCount > 0 it never ends.
GenYieldsAll ==
  /\ (GenEnded /\ seed.batchSize >= 1) =>
       /\ Len(seed.sizes) = CeilDiv(seed.userCount, seed.batchSize)
       /\ SumOf(seed.sizes) = seed.userCount
  /\ GenEnded => (seed.batchSize >= 1 \/ seed.userCount = 0)

\* C30: generateUsersInBatches yields exactly ceil(userCount / batchSize)
\* batches summing to userCount and then ends, so a seed with batchSize >= 1
\* eventually terminates, returning or raising, provided each store operation
\* returns.
C30_SeedTerminates ==
  /\ []GenYieldsAll
  /\ (seed.pc \in SeedRunning /\ seed.batchSize >= 1)
       ~> (seed.pc \in {"done", "failed"})

C30_Witness ==
  /\ seed.pc = "done"
  /\ seed.userCount = 3 /\ seed.batchSize = 2
  /\ seed.sizes = <<2, 1>>

\* The process of the script has ended
Exited == main.pc = "exited"

\* C23: the migrate script ends with exit code 0 when migrate returns
\* success = true, and with 1 when migrate returns success = false, when
\* migrate raises or when a setup step raises; the seed script ends with 1
\* when seeding raises and with 0 otherwise.
C23_ExitCodes ==
  Exited =>
    /\ main.exit \in {0, 1}
    /\ main.result.kind = "raised" => main.exit = 1
    /\ main.result.kind = "none" => main.exit = 1
    /\ main.result.kind = "returned" =>
         main.exit = IF main.script = "seed" \/ main.result.success
                       THEN 0 ELSE 1

C23_Witness ==
  /\ Exited /\ main.script = "migrate"
  /\ main.result.kind = "returned" /\ ~main.result.success
  /\ main.exit = 1

\* C24: the scripts close every store connection they opened before the
\* process ends, on every exit path: success, count mismatch and error.
C24_ConnectionsClosedAtExit ==
  Exited => (main.es # "open" /\ main.ch # "open")

\* C25: when an environment variable fails validation while the config
\* objects are built, initializeConfig(exitOnError = true) sees the error
\* after its reset of the validator and ends the process with code 1
\* instead of returning a configuration.
C25_InvalidConfigExits ==
  (main.pc \notin {"idle", "init"} /\ main.exitOnError
     /\ ImportErrors(main.env) > 0)
    => (Exited /\ main.exit = 1 /\ main.es = "none")

\* The number of batches the destination has taken in the current run
Inserted == Cardinality(OkCallsOf("target.insert"))

\* C26: within one migrate run at most one batch is in flight: the next batch
\* is requested only after the insert of the previous one completed, batches
\* are inserted in the order the source yielded them, and the engine never
\* holds more than one batch that is not inserted.
C26_OneBatchInFlight ==
  pc \in {"pull", "insert", "tcount", "sample", "lookup", "done"} =>
    /\ Len(yielded) - Inserted \in {0, 1}
    /\ pc # "insert" => Inserted = Len(yielded)
    /\ pc = "insert" =>
         (Inserted = Len(yielded) - 1 /\ batch = yielded[Len(yielded)])
    /\ chTable.rows =
         [i \in Ids |->
            Occurrences(Flatten(SubSeq(yielded, 1, Inserted)), i)]
    /\ \A i \in 1..Len(calls) - 1 :
         (calls[i].op = "source.findAll" /\ calls[i + 1].op # "target.count")
           => calls[i + 1].op = "target.insert"

C26_Witness ==
  /\ pc = "insert"
  /\ Len(yielded) = 3
  /\ Inserted = 2

\* C28: migrate performs no rollback: when the insert of the k-th batch fails
\* and migrate raises, the destination still exists and holds exactly the
\* records of batches 1..k-1 (it is neither cleared nor dropped).
C28_NoRollback ==
  (pc = "failed" /\ calls[Len(calls)].op = "target.insert") =>
    /\ chTable.exists
    /\ Inserted = Len(yielded) - 1
    /\ chTable.rows =
         [i \in Ids |->
            Occurrences(Flatten(SubSeq(yielded, 1, Len(yielded) - 1)), i)]

C28_Witness ==
  /\ pc = "failed" /\ calls[Len(calls)].op = "target.insert"
  /\ Len(yielded) = 2
  /\ ChCount(chTable) = 2

\* The operations the service has invoked on the source are reads
SourceOpsAreReads ==
  /\ \A i \in 1..Len(calls) :
       calls[i].op \in {"source.count", "source.findAll", "source.getSample",
                        "target.create", "target.clear", "target.insert",
                        "target.count", "target.findByIds"}
  /\ \A i \in 1..Len(st.events) :
       st.events[i].side = "source" => st.events[i].op \in {"exists", "count"}

\* C29: no operation of MigrationService writes to the source store: across
\* any sequence of migrate and getStatus calls, returning or raising, the
\* source's existence and records are unchanged, and only exists, count,
\* findAll and getSample are invoked on the source.
C29_SourceNeverWritten ==
  /\ [][esIndex' = esIndex]_vars
  /\ []SourceOpsAreReads

C29_Witness ==
  /\ pc = "failed" /\ Len(results) = 2
  /\ results[1].kind = "returned"
  /\ st.pc = "done" /\ st.n["source"] = 2
  /\ esIndex.docs = {1, 2}

\* Both concurrent calls have ended
RaceEnded == \A r \in 1..2 : race.run[r].pc \in {"done", "failed"}

\* A call raised or returned success = false, or the destination does not
\* hold the source's records once each
RaceDamage ==
  \/ \E r \in 1..2 : race.run[r].pc = "failed"
  \/ \E r \in 1..2 : race.run[r].pc = "done" /\ ~race.run[r].success
  \/ RaceEnded /\ chTable.rows # RowsOf(esIndex.docs)

\* C27: two migrate calls against the same stores are not kept apart and
\* race on create/clear: with the source unchanged and no transport failure,
\* a call fails, returns success = false or leaves a destination differing
\* from the source only when the calls overlapped, and an interleaving in
\* which one call's create() or clear() runs after the other's inserts, with
\* such an outcome, exists.
C27_DamageOnlyByOverlap ==
  RaceDamage => race.overlapped

C27_Witness ==
  /\ RaceEnded
  /\ race.raced
  /\ \A r \in 1..2 : race.run[r].pc = "done"
  /\ chTable.rows # RowsOf(esIndex.docs)

====
